---------------------------- MODULE Spec2Model ----------------------------
(***************************************************************************)
(* A model of the TensorRT execution core of Efficient-Face2Vid-Portrait   *)
(* (src/LivePortrait/commons/utils/tensorrt_driver.py): the Binding        *)
(* descriptors with their lazily created buffers, the construction of a    *)
(* TensorRTEngine manager (load_plugins, initialize_engines), input        *)
(* validation (check_input_validity), and the two public operations        *)
(* run_sequential_tasks ("run") and inference_tensorrt ("infer").          *)
(*                                                                         *)
(* Numbers are kept bit-exact: an array element is the little-endian       *)
(* sequence of its 16-bit limbs (int64: 4 limbs, int32/float32: 2 limbs,   *)
(* float16: 1 limb), so that astype(int32) really truncates.               *)
(***************************************************************************)
EXTENDS Integers, Sequences, FiniteSets, TLC

(***************************************************************************)
(* Bounds of the model.                                                    *)
(***************************************************************************)
\* Number of run/infer calls issued in one behaviour.
MaxCalls == 2
\* Number of TensorRTEngine instances constructed in one process.
MaxManagers == 2

Managers == 1 .. MaxManagers
\* The threads of the host program that call run/infer.
Callers == {1, 2}
MainThread == CHOOSE c \in Callers : \A o \in Callers : c <= o

(***************************************************************************)
(* Element types and bit-exact element values.                             *)
(***************************************************************************)
LimbBase == 2 ^ 16
LimbSign == 2 ^ 15

\* Number of 16-bit limbs of one element (itemsize / 2).
Limbs(dtype) ==
    CASE dtype = "int64"   -> 4
      [] dtype = "int32"   -> 2
      [] dtype = "float32" -> 2
      [] dtype = "float16" -> 1
      [] dtype = "int8"    -> 1
      [] dtype = "bool"    -> 1

ItemSize(dtype) ==
    CASE dtype \in {"int8", "bool"} -> 1
      [] OTHER -> 2 * Limbs(dtype)

RECURSIVE Volume(_)
Volume(shape) ==
    IF shape = <<>> THEN 1 ELSE Head(shape) * Volume(Tail(shape))

NBytes(shape, dtype) == Volume(shape) * ItemSize(dtype)

\* int64 -> int32 of one element: the low four bytes survive.
Narrow32(e) == <<e[1], e[2]>>

\* int32 -> int64 of one element: sign extension.
Widen64(e) ==
    IF e[2] >= LimbSign THEN <<e[1], e[2], LimbBase - 1, LimbBase - 1>>
                        ELSE <<e[1], e[2], 0, 0>>

\* numpy's ndarray.astype for the two integer conversions the driver performs.
AsType(arr, dtype) ==
    IF arr.dtype = dtype THEN arr
    ELSE IF arr.dtype = "int64" /\ dtype = "int32"
         THEN [arr EXCEPT !.dtype = "int32",
                          !.data = [k \in DOMAIN arr.data |-> Narrow32(arr.data[k])]]
    ELSE IF arr.dtype = "int32" /\ dtype = "int64"
         THEN [arr EXCEPT !.dtype = "int64",
                          !.data = [k \in DOMAIN arr.data |-> Widen64(arr.data[k])]]
    ELSE arr

\* The numeric value comparison of numpy.array_equal: same shape and equal
\* elements after promotion to the wider integer type.
ArrayEqual(a, b) ==
    /\ a.shape = b.shape
    /\ AsType(a, "int64").data = AsType(b, "int64").data

\* An int64 element is representable in int32 iff truncating and sign
\* extending gives it back.
Representable32(e) == Widen64(Narrow32(e)) = e

(***************************************************************************)
(* Element values the callers use.                                         *)
(***************************************************************************)
F32Zero == <<0, 0>>
F32One  == <<0, 16256>>
F16Zero == <<0>>
F16One  == <<15360>>
I32Zero == <<0, 0>>
I32One  == <<1, 0>>
I64One  == <<1, 0, 0, 0>>
\* 2^31: the smallest positive int64 that int32 cannot hold.
I64Big  == <<0, LimbSign, 0, 0>>

ValueOf(dtype, v) ==
    CASE dtype = "float32" -> IF v = 0 THEN F32Zero ELSE F32One
      [] dtype = "float16" -> IF v = 0 THEN F16Zero ELSE F16One
      [] dtype = "int32"   -> IF v = 0 THEN I32Zero ELSE I32One
      [] dtype = "int64"   -> IF v = 0 THEN I64One ELSE I64Big

Array(shape, dtype, data) == [shape |-> shape, dtype |-> dtype, data |-> data]

\* An array of the given shape whose elements all hold value v.
Filled(shape, dtype, v) ==
    Array(shape, dtype, [k \in 1 .. Volume(shape) |-> ValueOf(dtype, v)])

\* An int64 array whose last element is 2^31 and whose other elements are 1.
MixedI64(shape) ==
    Array(shape, "int64",
          [k \in 1 .. Volume(shape) |->
              IF k = Volume(shape) THEN I64Big ELSE I64One])

(***************************************************************************)
(* Addresses.  Every address is a triple <<space, n, k>>: device memory    *)
(* (pycuda.gpuarray), host arrays created by numpy or pagelocked_empty,    *)
(* and the arrays a caller passes in (position k of caller n's list).      *)
(***************************************************************************)
None == <<>>
DevAddr(n) == <<0, n, 0>>
HostAddr(n) == <<1, n, 0>>
ArgAddr(c, k) == <<2, c, k>>
IsDev(a) == a # None /\ a[1] = 0
IsArg(a) == a # None /\ a[1] = 2

\* The bytes of memory that was allocated and never written.
Uninit == << <<0 - 1>> >>

(***************************************************************************)
(* The serialized engine files.  They are inputs of the program: each path *)
(* of the configuration names a compiled engine with its I/O tensors in    *)
(* the engine's enumeration order.  The six engines below cover one and    *)
(* several inputs, one and several outputs, an int32 input, a 0-D input,   *)
(* the unit shape (1,), an output enumerated before the input, and a       *)
(* shape-inference input.  Two more builds of the lip engine enumerate     *)
(* their tensors in other orders: rt_SL_v2 its output first, rt_SL_v3 its  *)
(* output, its shape-inference input and then a second input.              *)
(***************************************************************************)
Tensor(name, mode, dtype, shape, shape_io) ==
    [name |-> name, mode |-> mode, dtype |-> dtype, shape |-> shape,
     shape_io |-> shape_io]

EngineFile(path) ==
    LET F == IF path \in {"rt_F_half", "rt_M_half", "rt_GW_half", "rt_S_half",
                          "rt_SE_half", "rt_SL_half"} THEN "HALF" ELSE "FLOAT"
    IN  CASE path \in {"rt_F", "rt_F_half"} ->
               << Tensor("img", "INPUT", F, <<2>>, FALSE),
                  Tensor("feature", "OUTPUT", F, <<2>>, FALSE) >>
          [] path \in {"rt_M", "rt_M_half"} ->
               << Tensor("img", "INPUT", F, <<1>>, FALSE),
                  Tensor("kp", "OUTPUT", F, <<1>>, FALSE),
                  Tensor("exp", "OUTPUT", F, <<2>>, FALSE) >>
          [] path \in {"rt_GW", "rt_GW_half"} ->
               << Tensor("feature_3d", "INPUT", F, <<2>>, FALSE),
                  Tensor("kp_source", "INPUT", F, <<1>>, FALSE),
                  Tensor("out", "OUTPUT", F, <<2>>, FALSE) >>
          [] path \in {"rt_S", "rt_S_half"} ->
               << Tensor("idx", "INPUT", "INT32", <<2>>, FALSE),
                  Tensor("delta", "OUTPUT", F, <<1>>, FALSE) >>
          [] path \in {"rt_SE", "rt_SE_half"} ->
               << Tensor("delta", "OUTPUT", F, <<1>>, FALSE),
                  Tensor("ratio", "INPUT", F, <<>>, FALSE) >>
          [] path \in {"rt_SL", "rt_SL_half"} ->
               << Tensor("count", "INPUT", "INT32", <<1>>, TRUE),
                  Tensor("delta", "OUTPUT", F, <<1>>, FALSE) >>
          [] path = "rt_SL_v2" ->
               << Tensor("delta", "OUTPUT", "HALF", <<1>>, FALSE),
                  Tensor("count", "INPUT", "INT32", <<1>>, TRUE) >>
          [] path = "rt_SL_v3" ->
               << Tensor("delta", "OUTPUT", "HALF", <<1>>, FALSE),
                  Tensor("count", "INPUT", "INT32", <<1>>, TRUE),
                  Tensor("lip", "INPUT", "HALF", <<1>>, FALSE) >>

\* engine.num_io_tensors
num_io_tensors(engine) == Len(EngineFile(engine))

\* The network an engine computes is opaque: an output tensor is written
\* with a term that records the engine, the tensor and everything the
\* execution read, so that any dependence on the data read is visible.
RECURSIVE Flatten(_)
Flatten(ss) == IF ss = <<>> THEN <<>> ELSE Head(ss) \o Flatten(Tail(ss))

\* A number for each engine file, so that memory contents stay numeric.
EngineNo(path) ==
    CASE path = "rt_F" -> 1 [] path = "rt_M" -> 2 [] path = "rt_GW" -> 3
      [] path = "rt_S" -> 4 [] path = "rt_SE" -> 5 [] path = "rt_SL" -> 6
      [] path = "rt_F_half" -> 7 [] path = "rt_M_half" -> 8
      [] path = "rt_GW_half" -> 9 [] path = "rt_S_half" -> 10
      [] path = "rt_SE_half" -> 11 [] path = "rt_SL_half" -> 12
      [] path = "rt_SL_v2" -> 13 [] path = "rt_SL_v3" -> 14

EngineFn(engine, t, reads) ==
    << <<EngineNo(engine), t>> >> \o Flatten(reads)

(***************************************************************************)
(* Binding (lines 11-53).                                                  *)
(***************************************************************************)
\* TensorRT versions that lack a data type do not get an entry (lines 24-27).
HasInt32 == TRUE
HasInt64 == TRUE

dtype_map ==
    [d \in {"FLOAT", "HALF", "INT8", "BOOL"}
           \cup (IF HasInt32 THEN {"INT32"} ELSE {})
           \cup (IF HasInt64 THEN {"INT64"} ELSE {}) |->
        CASE d = "FLOAT" -> "float32"
          [] d = "HALF"  -> "float16"
          [] d = "INT8"  -> "int8"
          [] d = "BOOL"  -> "bool"
          [] d = "INT32" -> "int32"
          [] d = "INT64" -> "int64"]

\* Binding.__init__: the descriptor of tensor idx, with no buffer yet.
Binding(engine, idx) ==
    LET t == EngineFile(engine)[idx]
    IN  [name |-> t.name,
         is_input |-> (t.mode = "INPUT"),
         dtype |-> dtype_map[t.dtype],
         shape |-> t.shape,
         host_buf |-> None,
         device_buf |-> None]

\* pycuda.gpuarray.empty(shape, dtype): a new device array, not initialized.
GpuEmpty(shape, dtype) ==
    [shape |-> shape, dtype |-> dtype, nbytes |-> NBytes(shape, dtype),
     data |-> Uninit]

\* The device_buffer property: allocate on first access, cached thereafter.
\* Gives the binding and the device memory after the access.
device_buffer_uncached(b, mem) ==
    [b |-> [b EXCEPT !.device_buf = DevAddr(Len(mem) + 1)],
     mem |-> Append(mem, GpuEmpty(b.shape, b.dtype))]

device_buffer_unsized(b, mem) ==
    IF b.device_buf = None
    THEN [b |-> [b EXCEPT !.device_buf = DevAddr(Len(mem) + 1)],
          mem |-> Append(mem, GpuEmpty(<<>>, b.dtype))]
    ELSE [b |-> b, mem |-> mem]

device_buffer(b, mem) ==
    IF b.device_buf = None
    THEN [b |-> [b EXCEPT !.device_buf = DevAddr(Len(mem) + 1)],
          mem |-> Append(mem, GpuEmpty(b.shape, b.dtype))]
    ELSE [b |-> b, mem |-> mem]

(***************************************************************************)
(* check_input_validity (lines 114-129).                                   *)
(***************************************************************************)
Ok(arr) == [ok |-> TRUE, err |-> "", arr |-> arr]
Raise(err) == [ok |-> FALSE, err |-> err, arr |-> <<>>]

\* check_input_validity with the scalar exception taken both ways.
check_input_validity_symmetric(input_array, input_binding) ==
    IF /\ input_array.shape # input_binding.shape
       /\ {input_binding.shape, input_array.shape} # {<<1>>, <<>>}
    THEN Raise("ValueError:shape")
    ELSE IF input_array.dtype # input_binding.dtype
    THEN Raise("TypeError:dtype")
    ELSE Ok(input_array)

check_input_validity(input_array, input_binding) ==
    IF /\ input_array.shape # input_binding.shape
       /\ ~(input_binding.shape = <<1>> /\ input_array.shape = <<>>)
    THEN Raise("ValueError:shape")
    ELSE IF input_array.dtype # input_binding.dtype
    THEN IF input_array.dtype = "int64" /\ input_binding.dtype = "int32"
         THEN \* line 122 rebinds input_array to the narrowed array, and
              \* line 123 compares that narrowed array with its own widening
              LET narrowed == AsType(input_array, "int32")
              IN  IF ~ArrayEqual(narrowed, AsType(narrowed, "int64"))
                  THEN Raise("TypeError:dtype")
                  ELSE Ok(narrowed)
         ELSE Raise("TypeError:dtype")
    ELSE Ok(input_array)

(***************************************************************************)
(* TensorRTEngine: construction (lines 57-112).                            *)
(***************************************************************************)
\* The keys of model_paths in insertion order (lines 60-76).
ModelOrder ==
    << "feature_extractor", "motion_extractor", "generator",
       "stitching_retargeting", "stitching_retargeting_eye",
       "stitching_retargeting_lip" >>

ModelNames == {ModelOrder[k] : k \in DOMAIN ModelOrder}

\* The configuration key that holds a model's engine path.
PathKey(model_name, half) ==
    LET base == CASE model_name = "feature_extractor" -> "rt_F"
                  [] model_name = "motion_extractor" -> "rt_M"
                  [] model_name = "generator" -> "rt_GW"
                  [] model_name = "stitching_retargeting" -> "rt_S"
                  [] model_name = "stitching_retargeting_eye" -> "rt_SE"
                  [] model_name = "stitching_retargeting_lip" -> "rt_SL"
    IN  IF half
        THEN CASE base = "rt_F" -> "rt_F_half" [] base = "rt_M" -> "rt_M_half"
               [] base = "rt_GW" -> "rt_GW_half" [] base = "rt_S" -> "rt_S_half"
               [] base = "rt_SE" -> "rt_SE_half" [] base = "rt_SL" -> "rt_SL_half"
        ELSE base

CfgKeys ==
    {PathKey(n, h) : n \in ModelNames, h \in BOOLEAN} \cup {"grid_sample_3d"}

\* A complete configuration: every engine file is named after its key.
FullCfg == [k \in CfgKeys |-> k]

Without(f, k) == [x \in DOMAIN f \ {k} |-> f[x]]

Put(f, k, v) == [x \in DOMAIN f \cup {k} |-> IF x = k THEN v ELSE f[x]]

\* The configurations a program passes to the constructor.
CfgChoices ==
    {FullCfg, Without(FullCfg, "rt_M"), Without(FullCfg, "rt_S_half"),
     Without(FullCfg, "grid_sample_3d")}

\* A manager object that does not exist yet.
NoManager ==
    [stage |-> "none", err |-> "", half |-> FALSE, plugin |-> "no",
     model_paths |-> <<>>, next |-> 0,
     engines |-> <<>>, contexts |-> <<>>, bindings |-> <<>>,
     binding_addresses |-> <<>>, inputs |-> <<>>, outputs |-> <<>>,
     stream |-> <<>>, fault |-> FALSE]

\* Lines 57-77: pick the path map, read the plugin path.
SelectPaths(half, cfg) ==
    IF \E n \in ModelNames : PathKey(n, half) \notin DOMAIN cfg
       \/ "grid_sample_3d" \notin DOMAIN cfg
    THEN [NoManager EXCEPT !.stage = "failed", !.err = "KeyError", !.half = half]
    ELSE [NoManager EXCEPT
             !.stage = "load_plugins", !.half = half,
             !.model_paths = [n \in ModelNames |-> cfg[PathKey(n, half)]]]

\* Lines 78-85 and 88-90: load the plugin library and register it, then
\* create the empty tables and the stream.  n counts the executions of the
\* load-and-register step in the process; loadable is whether ctypes.CDLL
\* finds and loads the library (it raises OSError otherwise).
load_plugins_swallowed(M, n, loadable) ==
    IF loadable
    THEN [mgr |-> [M EXCEPT !.plugin = "loaded", !.stage = "engines", !.next = 1],
          n |-> n + 1]
    ELSE [mgr |-> [M EXCEPT !.plugin = "failed", !.stage = "engines", !.next = 1],
          n |-> n]

load_plugins_once(M, n, loadable) ==
    IF loadable
    THEN [mgr |-> [M EXCEPT !.plugin = "loaded", !.stage = "engines", !.next = 1],
          n |-> IF n = 0 THEN 1 ELSE n]
    ELSE [mgr |-> [M EXCEPT !.plugin = "failed", !.stage = "failed",
                            !.err = "OSError"],
          n |-> n]

load_plugins(M, n, loadable) ==
    IF loadable
    THEN [mgr |-> [M EXCEPT !.plugin = "loaded", !.stage = "engines", !.next = 1],
          n |-> n + 1]
    ELSE [mgr |-> [M EXCEPT !.plugin = "failed", !.stage = "failed",
                            !.err = "OSError"],
          n |-> n]

\* Line 100 and prepare_buffers (lines 110-112): touch the device_buffer of
\* the bindings idxs, in order.  Gives the bindings and the device memory.
RECURSIVE TouchDevice(_, _, _)
TouchDevice(bs, idxs, mem) ==
    IF idxs = <<>> THEN [bs |-> bs, mem |-> mem]
    ELSE LET r == device_buffer(bs[Head(idxs)], mem)
         IN  TouchDevice([bs EXCEPT ![Head(idxs)] = r.b], Tail(idxs), r.mem)

Indices(n) == [k \in 1 .. n |-> k]

\* The list comprehension of line 101 or 102 without its condition.
FilterAll(bs, k, want_input) == [j \in 1 .. Len(bs) - k + 1 |-> j + k - 1]

\* The indices k of bs with P-matching direction, in order.
RECURSIVE Filter(_, _, _)
Filter(bs, k, want_input) ==
    IF k > Len(bs) THEN <<>>
    ELSE (IF bs[k].is_input = want_input THEN <<k>> ELSE <<>>)
         \o Filter(bs, k + 1, want_input)

\* The tensors prepare_buffers forces: inputs then outputs (line 111).
prepare_buffers(ins, outs) == ins \o outs

\* One iteration of initialize_engines (lines 93-103) for model_name, the
\* engine file being readable.  Gives the manager and the device memory.
InitializeEngine(M, mem, model_name) ==
    LET engine == M.model_paths[model_name]
        fresh == [k \in 1 .. num_io_tensors(engine) |-> Binding(engine, k)]
        \* line 100: b.device_buffer.ptr for every binding
        a == TouchDevice(fresh, Indices(Len(fresh)), mem)
        ins == Filter(a.bs, 1, TRUE)
        outs == Filter(a.bs, 1, FALSE)
        \* line 103: prepare_buffers
        p == TouchDevice(a.bs, prepare_buffers(ins, outs), a.mem)
    IN  [mgr |->
           [M EXCEPT
              !.engines = Put(@, model_name, engine),
              !.contexts = Put(@, model_name, [k \in 1 .. Len(fresh) |-> None]),
              !.bindings = Put(@, model_name, p.bs),
              !.binding_addresses =
                  Put(@, model_name, [k \in 1 .. Len(fresh) |-> a.bs[k].device_buf]),
              !.inputs = Put(@, model_name, ins),
              !.outputs = Put(@, model_name, outs),
              !.next = M.next + 1,
              !.stage = IF M.next = Len(ModelOrder) THEN "ready" ELSE "engines"],
         mem |-> p.mem]

\* The whole of initialize_engines, every engine file being readable.
RECURSIVE InitializeEngines(_, _)
InitializeEngines(M, mem) ==
    IF M.stage # "engines" THEN [mgr |-> M, mem |-> mem]
    ELSE LET r == InitializeEngine(M, mem, ModelOrder[M.next])
         IN  InitializeEngines(r.mgr, r.mem)

\* A successful TensorRTEngine(half, **FullCfg) in a process that has run the
\* plugin step n times.  Gives the manager, device memory and the new count.
Constructed(half, mem, n) ==
    LET p == load_plugins(SelectPaths(half, FullCfg), n, TRUE)
        r == InitializeEngines(p.mgr, mem)
    IN  [mgr |-> r.mgr, mem |-> r.mem, n |-> p.n]

\* A successful TensorRTEngine(half, **cfg), likewise.
ConstructedFrom(half, cfg, mem, n) ==
    LET p == load_plugins(SelectPaths(half, cfg), n, TRUE)
        r == InitializeEngines(p.mgr, mem)
    IN  [mgr |-> r.mgr, mem |-> r.mem, n |-> p.n]

\* Configurations that name one of the builds of the lip engine.
LayoutCfgs ==
    {FullCfg, Put(FullCfg, "rt_SL_half", "rt_SL_v2"),
     Put(FullCfg, "rt_SL_half", "rt_SL_v3")}

\* The precision the pipeline's configuration asks for by default
\* (InferenceConfig.flag_use_half_precision).
flag_use_half_precision == TRUE

(***************************************************************************)
(* The state of one process.                                               *)
(***************************************************************************)
VARIABLES
    pluginLoads,  \* how often the plugin load-and-register step has executed
    mgr,          \* the TensorRTEngine objects
    devmem,       \* device memory: the gpuarrays, by device address
    hostmem,      \* host arrays created by the driver, by host address
    call,         \* what each caller is doing, and what it got back
    ncalls        \* number of run/infer calls issued so far

vars == <<pluginLoads, mgr, devmem, hostmem, call, ncalls>>

\* What run returns when execution fails (line 162).
Sentinel == <<None, <<0>>>>

NoCall ==
    [pc |-> "idle", api |-> "", mgr |-> 0, model |-> "", given |-> <<>>,
     inputs |-> <<>>, i |-> 0, outs |-> <<>>,
     how |-> "none", value |-> <<>>, err |-> "", kept |-> <<>>,
     faulted |-> FALSE, before |-> <<>>, after_failure |-> FALSE,
     overlapped |-> FALSE, raced |-> FALSE]

(***************************************************************************)
(* What callers pass.  A container is a list, a tuple or a dict; a dict    *)
(* has keys[k] naming items[k].                                            *)
(***************************************************************************)
Container(kind, items, keys) == [kind |-> kind, items |-> items, keys |-> keys]

WrongShape(b) == IF b.shape = <<1>> THEN <<2>> ELSE <<1>>

\* Arrays a caller may supply for one declared input: two that match, a 0-D
\* scalar, one of another shape, and two int64 arrays of the declared shape
\* (all values 1; one value 2^31).
Candidates(b) ==
    { Filled(b.shape, b.dtype, 0), Filled(b.shape, b.dtype, 1),
      Filled(<<>>, b.dtype, 1), Filled(WrongShape(b), b.dtype, 1),
      Filled(b.shape, "int64", 0), MixedI64(b.shape) }

Matching(b) == { Filled(b.shape, b.dtype, 0), Filled(b.shape, b.dtype, 1) }

\* All lists with one array of choose(b) per binding of bs.
RECURSIVE ListsOver(_, _)
ListsOver(bs, matching) ==
    IF bs = <<>> THEN { <<>> }
    ELSE { <<x>> \o rest :
             x \in (IF matching THEN Matching(Head(bs)) ELSE Candidates(Head(bs))),
             rest \in ListsOver(Tail(bs), matching) }

\* The input bindings of a model, in declared input order.
InputBindings(M, model_name) ==
    [k \in 1 .. Len(M.inputs[model_name]) |->
        M.bindings[model_name][M.inputs[model_name][k]]]

OutputBindings(M, model_name) ==
    [k \in 1 .. Len(M.outputs[model_name]) |->
        M.bindings[model_name][M.outputs[model_name][k]]]

Names(bs) == [k \in 1 .. Len(bs) |-> bs[k].name]

\* The containers a caller passes for a model of the manager: lists of the
\* declared length, lists one short and one long, a tuple, and dicts that
\* are complete, lack the last declared name, or carry one more name.
ContainersFor(bs) ==
    LET exact == ListsOver(bs, FALSE)
        good == ListsOver(bs, TRUE)
        n == Len(bs)
    IN  { Container("list", l, <<>>) : l \in exact }
        \cup { Container("list", SubSeq(l, 1, n - 1), <<>>) : l \in exact }
        \cup { Container("list", Append(l, l[n]), <<>>) : l \in good }
        \cup { Container("tuple", l, <<>>) : l \in good }
        \cup { Container("dict", l, Names(bs)) : l \in good }
        \cup { Container("dict", SubSeq(l, 1, n - 1), SubSeq(Names(bs), 1, n - 1)) :
                 l \in good }
        \cup { Container("dict", Append(l, l[n]), Append(Names(bs), "extra")) :
                 l \in good }

\* What a caller passes with a model name the manager does not know.
StrayContainers ==
    LET x == Filled(<<1>>, "float32", 1)
    IN  { Container("list", <<x>>, <<>>), Container("tuple", <<x>>, <<>>),
          Container("dict", <<x>>, <<"img">>) }

UnknownModel == "face_landmark"

(***************************************************************************)
(* run_sequential_tasks, lines 131-143: the checks before the copy loop.   *)
(***************************************************************************)
\* inputs[name] of a dict container; <<>> stands for KeyError.
Lookup(container, name) ==
    IF \E k \in DOMAIN container.keys : container.keys[k] = name
    THEN << container.items[CHOOSE k \in DOMAIN container.keys :
                                container.keys[k] = name] >>
    ELSE <<>>

Checked(ok, err, inputs) == [ok |-> ok, err |-> err, inputs |-> inputs]

\* Lines 134-143, the model being known.
RunInputs(M, model_name, container) ==
    LET bs == InputBindings(M, model_name)
    IN  IF /\ container.kind = "dict"
           /\ \E k \in DOMAIN bs : Lookup(container, bs[k].name) = <<>>
        THEN Checked(FALSE, "KeyError", <<>>)
        ELSE LET inputs ==
                   IF container.kind = "dict"
                   THEN [k \in DOMAIN bs |-> Lookup(container, bs[k].name)[1]]
                   ELSE container.items
             IN  IF Len(inputs) # Len(bs)
                 THEN Checked(FALSE, "ValueError:count", <<>>)
                 ELSE Checked(TRUE, "", inputs)

\* Lines 132-133 test the name before anything else.
RunPreludeUnguarded(M, model_name, container) ==
    IF model_name \notin DOMAIN M.engines
    THEN Checked(FALSE, "KeyError", <<>>)
    ELSE RunInputs(M, model_name, container)

RunPrelude(M, model_name, container) ==
    IF model_name \notin DOMAIN M.engines
    THEN Checked(FALSE, "ValueError:model", <<>>)
    ELSE RunInputs(M, model_name, container)

(***************************************************************************)
(* inference_tensorrt, lines 172-183: everything before the call of run.   *)
(***************************************************************************)
\* The list comprehension of lines 179-180 from element k on: the first
\* element that fails decides the error.
RECURSIVE InferValidate(_, _, _)
InferValidate(items, bs, k) ==
    IF k > Len(items) THEN Checked(TRUE, "", <<>>)
    ELSE IF k > Len(bs) THEN Checked(FALSE, "IndexError", <<>>)
    ELSE LET r == check_input_validity(items[k], bs[k])
         IN  IF ~r.ok THEN Checked(FALSE, r.err, <<>>)
             ELSE LET rest == InferValidate(items, bs, k + 1)
                  IN  IF rest.ok THEN Checked(TRUE, "", <<r.arr>> \o rest.inputs)
                      ELSE rest

InferPrelude(M, task, container) ==
    IF container.kind # "list"
    THEN Checked(FALSE, "TypeError:inputs", <<>>)
    ELSE IF task \notin DOMAIN M.inputs
    THEN Checked(FALSE, "ValueError:model", <<>>)
    ELSE LET r == InferValidate(container.items, InputBindings(M, task), 1)
         IN  IF ~r.ok THEN r
             ELSE RunPrelude(M, task, Container("list", r.inputs, <<>>))

Prelude(api, M, model_name, container) ==
    IF api = "infer" THEN InferPrelude(M, model_name, container)
                     ELSE RunPrelude(M, model_name, container)

(***************************************************************************)
(* The calls.  Each action is one step of run_sequential_tasks on behalf   *)
(* of caller c; the steps of one call are taken in program order.          *)
(***************************************************************************)
Ready == {m \in Managers : mgr[m].stage = "ready"}

Idle(c) == call[c].pc = "idle"

\* The arrays a finished call returned.
Returned(me) ==
    IF me.how = "return" /\ me.value # Sentinel THEN me.value ELSE <<>>

\* The arrays of addrs leave host memory.
Release(mem, addrs) == [a \in DOMAIN mem \ {addrs[k][2] : k \in DOMAIN addrs} |-> mem[a]]

\* The call of caller c ends: it raises err or returns value.
Finish(c, how, value, err) ==
    [call[c] EXCEPT !.pc = "done", !.how = how, !.value = value, !.err = err]

\* Lines 160-162: an exception of execute_async_v3 or synchronize is
\* printed and the call returns the sentinel.
OnExecutionErrorPropagated(c) == Finish(c, "raise", <<>>, "RuntimeError")

OnExecutionError(c) == Finish(c, "return", Sentinel, "")

\* Caller o is inside run, between its checks and its return.
InFlight(o) == call[o].pc \notin {"idle", "done"}

\* The caller invokes run(model_name, given) or infer(model_name, given) on
\* manager m: lines 131-143, preceded for infer by lines 172-181.  Nothing
\* in the code keeps a second thread out while a call is in flight: the
\* records note when two calls on one manager overlap (overlapped), and
\* when they name the same model (raced).
Begin(c, m, api, model_name, given) ==
    /\ Idle(c)
    /\ ncalls < MaxCalls
    /\ m \in Ready
    /\ LET r == Prelude(api, mgr[m], model_name, given)
           others == {o \in Callers \ {c} : InFlight(o) /\ call[o].mgr = m}
           started == [call[c] EXCEPT !.api = api, !.mgr = m, !.model = model_name,
                                      !.given = given, !.before = devmem]
       IN  call' = [o \in Callers |->
                      IF o = c
                      THEN IF r.ok
                           THEN [started EXCEPT
                                   !.pc = "copy", !.inputs = r.inputs, !.i = 1,
                                   !.overlapped = (others # {}),
                                   !.raced = (\E x \in others : call[x].model = model_name)]
                           ELSE [started EXCEPT !.pc = "done", !.how = "raise",
                                                !.err = r.err]
                      ELSE IF r.ok /\ o \in others
                           THEN [call[o] EXCEPT
                                   !.overlapped = TRUE,
                                   !.raced = (@ \/ call[o].model = model_name)]
                           ELSE call[o]]
    /\ ncalls' = ncalls + 1
    /\ UNCHANGED <<pluginLoads, mgr, devmem, hostmem>>

\* The caller goes on after a call: it keeps the arrays the call returned,
\* drops the ones it kept from the call before, and remembers nothing else
\* (after_failure records that some call of it returned the sentinel).
Resume(c) ==
    /\ call[c].pc = "done"
    /\ call' = [call EXCEPT ![c] =
                  [NoCall EXCEPT !.kept = Returned(call[c]),
                                 !.after_failure = call[c].after_failure
                                                   \/ call[c].faulted]]
    /\ hostmem' = Release(hostmem, call[c].kept \o call[c].outs)
    /\ UNCHANGED <<pluginLoads, mgr, devmem, ncalls>>

\* cuda.memcpy_htod(dest, src): the bytes of src replace those at dest.
memcpy_htod_skip(mem, dest, src) == mem

memcpy_htod(mem, dest, src) == [mem EXCEPT ![dest[2]].data = src.data]

\* One iteration of the loop of lines 145-148: validate input i, make it
\* contiguous, copy it to the device buffer of its binding.
CopyInput(c) ==
    LET me == call[c]
        M == mgr[me.mgr]
        idx == M.inputs[me.model][me.i]
        r == check_input_validity(me.inputs[me.i], M.bindings[me.model][idx])
        d == device_buffer(M.bindings[me.model][idx], devmem)
    IN  /\ me.pc = "copy"
        /\ IF ~r.ok
           THEN /\ call' = [call EXCEPT ![c] = Finish(c, "raise", <<>>, r.err)]
                /\ UNCHANGED <<mgr, devmem>>
           ELSE /\ devmem' = memcpy_htod(d.mem, d.b.device_buf, r.arr)
                /\ mgr' = [mgr EXCEPT ![me.mgr].bindings[me.model][idx] = d.b]
                /\ call' = [call EXCEPT ![c].i = IF me.i = Len(me.inputs) THEN 0 ELSE @ + 1,
                                        ![c].pc = IF me.i = Len(me.inputs) THEN "bind" ELSE "copy"]
        /\ UNCHANGED <<pluginLoads, hostmem, ncalls>>

\* The address run gives tensor t of the engine (lines 151-155); python
\* counts tensors and inputs from 0, the model from 1.
TensorAddress(M, model_name, c, n_inputs, t) ==
    IF t - 1 < n_inputs /\ EngineFile(M.engines[model_name])[t].shape_io
    THEN ArgAddr(c, t)
    ELSE M.binding_addresses[model_name][t]

\* Lines 150-155: give every tensor of the engine its address.
BindAddresses(c) ==
    LET me == call[c]
        M == mgr[me.mgr]
    IN  /\ me.pc = "bind"
        /\ mgr' = [mgr EXCEPT ![me.mgr].contexts[me.model] =
                     [t \in 1 .. num_io_tensors(M.engines[me.model]) |->
                         TensorAddress(M, me.model, c, Len(me.inputs), t)]]
        /\ call' = [call EXCEPT ![c].pc = "exec"]
        /\ UNCHANGED <<pluginLoads, devmem, hostmem, ncalls>>

\* Line 158: context.execute_async_v3(stream).  Submission either raises,
\* which lines 160-162 turn into the sentinel, or queues the execution with
\* the addresses the context holds now.
Execute(c, raises) ==
    LET me == call[c]
        M == mgr[me.mgr]
    IN  /\ me.pc = "exec"
        /\ IF raises
           THEN /\ call' = [call EXCEPT ![c] =
                              [OnExecutionError(c) EXCEPT !.faulted = TRUE]]
                /\ UNCHANGED mgr
           ELSE /\ mgr' = [mgr EXCEPT ![me.mgr].stream =
                             Append(@, [model |-> me.model, owner |-> c,
                                        addrs |-> M.contexts[me.model]])]
                /\ call' = [call EXCEPT ![c].pc = "sync"]
        /\ UNCHANGED <<pluginLoads, devmem, hostmem, ncalls>>

\* The first n elements of size limbs that lie at the start of a host array.
RawView(arr, limbs, n) ==
    LET bytes == Flatten(arr.data)
    IN  IF Len(bytes) < n * limbs THEN Uninit
        ELSE [k \in 1 .. n |-> SubSeq(bytes, (k - 1) * limbs + 1, k * limbs)]

\* What an execution reads at the address bound to an input tensor.
ReadTensor(a, b) ==
    IF IsDev(a) THEN devmem[a[2]].data
    ELSE IF IsArg(a) /\ a[3] \in DOMAIN call[a[2]].inputs
    THEN RawView(call[a[2]].inputs[a[3]], Limbs(b.dtype), Volume(b.shape))
    ELSE Uninit

\* The device works off the head of the stream: the engine reads its input
\* tensors and writes its output tensors at the queued addresses, or the
\* execution faults and writes nothing.
DeviceRun(m, faults) ==
    LET M == mgr[m]
        w == Head(M.stream)
        bs == M.bindings[w.model]
        reads == [k \in 1 .. Len(M.inputs[w.model]) |->
                    ReadTensor(w.addrs[M.inputs[w.model][k]],
                               bs[M.inputs[w.model][k]])]
        outs == {t \in DOMAIN bs : ~bs[t].is_input}
        result(t) == EngineFn(M.engines[w.model], t, reads)
    IN  /\ M.stream # <<>>
        /\ mgr' = [mgr EXCEPT ![m].stream = Tail(@),
                              ![m].fault = (@ \/ faults)]
        /\ IF faults
           THEN /\ call' = [call EXCEPT ![w.owner].faulted = TRUE]
                /\ UNCHANGED devmem
           ELSE /\ devmem' =
                     [n \in DOMAIN devmem |->
                        IF \E t \in outs : w.addrs[t] = DevAddr(n)
                        THEN [devmem[n] EXCEPT !.data =
                                result(CHOOSE t \in outs : w.addrs[t] = DevAddr(n))]
                        ELSE devmem[n]]
                /\ call' =
                     [c \in Callers |->
                        [call[c] EXCEPT !.inputs =
                           [k \in DOMAIN call[c].inputs |->
                              IF \E t \in outs : w.addrs[t] = ArgAddr(c, k)
                              THEN [call[c].inputs[k] EXCEPT !.data =
                                      result(CHOOSE t \in outs : w.addrs[t] = ArgAddr(c, k))]
                              ELSE call[c].inputs[k]]]]
        /\ UNCHANGED <<pluginLoads, hostmem, ncalls>>

\* Line 159: stream.synchronize() returns when the stream has drained; a
\* fault of the device raises here and lines 160-162 return the sentinel.
SynchronizeNoWait(c) ==
    LET me == call[c]
        M == mgr[me.mgr]
    IN  /\ me.pc = "sync"
        /\ IF M.fault
           THEN /\ call' = [call EXCEPT ![c] = OnExecutionError(c)]
                /\ mgr' = [mgr EXCEPT ![me.mgr].fault = FALSE]
           ELSE /\ call' = [call EXCEPT ![c] =
                              IF M.outputs[me.model] = <<>>
                              THEN Finish(c, "return", <<>>, "")
                              ELSE [me EXCEPT !.pc = "dtoh", !.i = 1]]
                /\ UNCHANGED mgr
        /\ UNCHANGED <<pluginLoads, devmem, hostmem, ncalls>>

Synchronize(c) ==
    LET me == call[c]
        M == mgr[me.mgr]
    IN  /\ me.pc = "sync"
        /\ M.stream = <<>>
        /\ IF M.fault
           THEN /\ call' = [call EXCEPT ![c] = OnExecutionError(c)]
                /\ mgr' = [mgr EXCEPT ![me.mgr].fault = FALSE]
           ELSE /\ call' = [call EXCEPT ![c] =
                              IF M.outputs[me.model] = <<>>
                              THEN Finish(c, "return", <<>>, "")
                              ELSE [me EXCEPT !.pc = "dtoh", !.i = 1]]
                /\ UNCHANGED mgr
        /\ UNCHANGED <<pluginLoads, devmem, hostmem, ncalls>>

\* The host address numpy gives a new array: one no live array occupies.
FreshHost(mem) == CHOOSE n \in 1 .. Cardinality(DOMAIN mem) + 1 : n \notin DOMAIN mem

\* The array one iteration of lines 165-168 appends to outputs: np.empty of
\* the output's shape and dtype, filled by memcpy_dtoh from its device
\* buffer.  Gives the address of the array, host memory and the binding.
FetchOutputPinned(b, hmem, dmem) ==
    LET a == IF b.host_buf = None THEN HostAddr(FreshHost(hmem)) ELSE b.host_buf
    IN  [addr |-> a,
         hmem |-> Put(hmem, a[2], Array(b.shape, b.dtype, dmem[b.device_buf[2]].data)),
         b |-> [b EXCEPT !.host_buf = a]]

FetchOutput(b, hmem, dmem) ==
    LET a == HostAddr(FreshHost(hmem))
    IN  [addr |-> a,
         hmem |-> Put(hmem, a[2], Array(b.shape, b.dtype, dmem[b.device_buf[2]].data)),
         b |-> b]

\* One iteration of the loop of lines 165-168; after the last one, line 170
\* returns the list.
CopyOutput(c) ==
    LET me == call[c]
        M == mgr[me.mgr]
        idx == M.outputs[me.model][me.i]
        d == device_buffer(M.bindings[me.model][idx], devmem)
        f == FetchOutput(d.b, hostmem, d.mem)
        outs == Append(me.outs, f.addr)
    IN  /\ me.pc = "dtoh"
        /\ devmem' = d.mem
        /\ hostmem' = f.hmem
        /\ mgr' = [mgr EXCEPT ![me.mgr].bindings[me.model][idx] = f.b]
        /\ call' = [call EXCEPT ![c] =
                      IF me.i = Len(M.outputs[me.model])
                      THEN [Finish(c, "return", outs, "") EXCEPT !.outs = <<>>, !.i = 0]
                      ELSE [me EXCEPT !.outs = outs, !.i = @ + 1]]
        /\ UNCHANGED <<pluginLoads, ncalls>>

\* The steps caller c takes inside a call.
Step(c) ==
    \/ CopyInput(c)
    \/ BindAddresses(c)
    \/ \E raises \in BOOLEAN : Execute(c, raises)
    \/ Synchronize(c)
    \/ CopyOutput(c)
    \/ Resume(c)

\* What a caller may ask of manager m.
Invoke(c) ==
    /\ Idle(c)
    /\ ncalls < MaxCalls
    /\ \E m \in Ready, api \in {"run", "infer"} :
        \/ \E model_name \in ModelNames :
             \E given \in ContainersFor(InputBindings(mgr[m], model_name)) :
                Begin(c, m, api, model_name, given)
        \/ \E given \in StrayContainers : Begin(c, m, api, UnknownModel, given)

Device == \E m \in Managers, faults \in BOOLEAN : DeviceRun(m, faults)

(***************************************************************************)
(* Spec: one constructed manager and a single-threaded program, whose      *)
(* calls follow one another (one call in flight at a time).                *)
(***************************************************************************)
Init ==
    LET r == Constructed(flag_use_half_precision, <<>>, 0)
    IN  /\ pluginLoads = r.n
        /\ mgr = [m \in Managers |-> IF m = 1 THEN r.mgr ELSE NoManager]
        /\ devmem = r.mem
        /\ hostmem = <<>>
        /\ call = [c \in Callers |-> NoCall]
        /\ ncalls = 0

Next ==
    \/ Invoke(MainThread)
    \/ Step(MainThread)
    \/ Device

Spec == Init /\ [][Next]_vars

(***************************************************************************)
(* SpecProc: a process that constructs managers, one after the other.      *)
(* Each action is one step of TensorRTEngine.__init__.                     *)
(***************************************************************************)
Settled(m) == mgr[m].stage \in {"ready", "failed"}

\* Lines 57-77 of the constructor of manager m.
Construct(m, half, cfg) ==
    /\ mgr[m].stage = "none"
    /\ \A k \in Managers : k < m => Settled(k)
    /\ mgr' = [mgr EXCEPT ![m] = SelectPaths(half, cfg)]
    /\ UNCHANGED <<pluginLoads, devmem, hostmem, call, ncalls>>

\* Lines 78-85.
LoadPlugins(m, loadable) ==
    /\ mgr[m].stage = "load_plugins"
    /\ LET r == load_plugins(mgr[m], pluginLoads, loadable)
       IN  /\ mgr' = [mgr EXCEPT ![m] = r.mgr]
           /\ pluginLoads' = r.n
    /\ UNCHANGED <<devmem, hostmem, call, ncalls>>

\* One iteration of the loop of initialize_engines (lines 93-103).  An
\* engine file that cannot be read or deserialized ends the construction
\* with the exception of line 94 or 95.
LoadEngine(m, readable) ==
    /\ mgr[m].stage = "engines"
    /\ IF readable
       THEN LET r == InitializeEngine(mgr[m], devmem, ModelOrder[mgr[m].next])
            IN  /\ mgr' = [mgr EXCEPT ![m] = r.mgr]
                /\ devmem' = r.mem
       ELSE /\ mgr' = [mgr EXCEPT ![m].stage = "failed", ![m].err = "OSError"]
            /\ UNCHANGED devmem
    /\ UNCHANGED <<pluginLoads, hostmem, call, ncalls>>

InitProc ==
    /\ pluginLoads = 0
    /\ mgr = [m \in Managers |-> NoManager]
    /\ devmem = <<>>
    /\ hostmem = <<>>
    /\ call = [c \in Callers |-> NoCall]
    /\ ncalls = 0

NextProc ==
    \/ \E m \in Managers, half \in BOOLEAN, cfg \in CfgChoices : Construct(m, half, cfg)
    \/ \E m \in Managers, loadable \in BOOLEAN : LoadPlugins(m, loadable)
    \/ \E m \in Managers, readable \in BOOLEAN : LoadEngine(m, readable)

SpecProc == InitProc /\ [][NextProc]_vars

(***************************************************************************)
(* SpecLayouts: a manager constructed from a configuration that names one  *)
(* of the builds of the lip engine, and a single-threaded program that     *)
(* calls that model.                                                       *)
(***************************************************************************)
InitLayouts ==
    \E cfg \in LayoutCfgs :
        LET r == ConstructedFrom(flag_use_half_precision, cfg, <<>>, 0)
        IN  /\ pluginLoads = r.n
            /\ mgr = [m \in Managers |-> IF m = 1 THEN r.mgr ELSE NoManager]
            /\ devmem = r.mem
            /\ hostmem = <<>>
            /\ call = [c \in Callers |-> NoCall]
            /\ ncalls = 0

InvokeLip(c) ==
    /\ Idle(c)
    /\ ncalls < MaxCalls
    /\ \E m \in Ready, api \in {"run", "infer"} :
          \E given \in ContainersFor(InputBindings(mgr[m], "stitching_retargeting_lip")) :
             Begin(c, m, api, "stitching_retargeting_lip", given)

NextLayouts ==
    \/ InvokeLip(MainThread)
    \/ Step(MainThread)
    \/ Device

SpecLayouts == InitLayouts /\ [][NextLayouts]_vars

(***************************************************************************)
(* SpecThreads: one constructed manager and two threads that call run with *)
(* valid inputs whenever they like.  The code takes no lock, so the steps  *)
(* of two calls interleave statement by statement.                         *)
(***************************************************************************)
\* The models the threads call: one with two outputs, one with two inputs,
\* one with a shape-inference input.
ThreadModels == {"motion_extractor", "generator", "stitching_retargeting_lip"}

\* The arrays thread c passes for the input bindings bs: valid ones, filled
\* with a value of its own.
ThreadInputs(c, bs) == [k \in DOMAIN bs |-> Filled(bs[k].shape, bs[k].dtype, c - 1)]

\* Thread c calls run with a list of arrays that pass validation.
InvokeValid(c) ==
    /\ Idle(c)
    /\ ncalls < MaxCalls
    /\ \E m \in Ready, model_name \in ThreadModels :
          Begin(c, m, "run", model_name,
                Container("list", ThreadInputs(c, InputBindings(mgr[m], model_name)), <<>>))

NextThreads ==
    \/ \E c \in Callers : InvokeValid(c)
    \/ \E c \in Callers : Step(c)
    \/ Device

SpecThreads == Init /\ [][NextThreads]_vars

(***************************************************************************)
(* Vocabulary of the claims.                                               *)
(***************************************************************************)
InCall(c) == call[c].pc # "idle"

Known(c) == InCall(c) /\ call[c].model \in DOMAIN mgr[call[c].mgr].engines

\* The call of c has ended by returning the list of output arrays.
ReturnedOutputs(c) ==
    call[c].pc = "done" /\ call[c].how = "return" /\ call[c].value # Sentinel

ReturnedSentinel(c) ==
    call[c].pc = "done" /\ call[c].how = "return" /\ call[c].value = Sentinel

Raised(c, errs) ==
    call[c].pc = "done" /\ call[c].how = "raise" /\ call[c].err \in errs

ValidationErrors == {"ValueError:shape", "TypeError:dtype"}

\* Every input of the call has passed validation (and the copy loop).
PastValidation(c) ==
    \/ call[c].pc \in {"bind", "exec", "sync", "dtoh"}
    \/ call[c].pc = "done" /\ call[c].how = "return"

\* The declared inputs and outputs of the model the call names.
Declared(c) == InputBindings(mgr[call[c].mgr], call[c].model)
DeclaredOut(c) == OutputBindings(mgr[call[c].mgr], call[c].model)

\* The array the caller supplied for declared input k; <<>> if there is none.
Supplied(c, k) ==
    LET g == call[c].given
    IN  IF g.kind = "dict" THEN Lookup(g, Declared(c)[k].name)
        ELSE IF k \in DOMAIN g.items THEN << g.items[k] >> ELSE <<>>

AllRepresentable(arr) == \A k \in DOMAIN arr.data : Representable32(arr.data[k])

(***************************************************************************)
(* C1.  If an input of run fails shape or type validation, the error is    *)
(* raised before any host-to-device copy of that call, so device memory is *)
(* what it was when the call began.                                        *)
(* The code validates and copies input by input (lines 145-148): an input  *)
(* that fails after an earlier one passed finds that one already copied.   *)
(***************************************************************************)
C1_ValidationErrorLeavesDeviceUntouched ==
    \A c \in Callers :
        (call[c].api = "run" /\ Raised(c, ValidationErrors))
            => devmem = call[c].before

(***************************************************************************)
(* C2.  An int64 array supplied for a declared int32 input passes          *)
(* validation, with values numerically equal to the original, iff every    *)
(* value is representable in int32; otherwise validation fails with a type *)
(* error.                                                                  *)
(* Line 123 compares the narrowed array with itself, so validation never   *)
(* fails and a value outside int32 is truncated.                           *)
(***************************************************************************)
C2_NarrowingPassesOnlyIfRepresentable ==
    \A c \in Callers :
        Known(c) =>
            \A k \in DOMAIN Declared(c) :
                LET passed == \/ PastValidation(c)
                              \/ call[c].pc = "copy" /\ k < call[c].i
                    x == Supplied(c, k)
                IN  (/\ x # <<>>
                     /\ x[1].dtype = "int64"
                     /\ Declared(c)[k].dtype = "int32")
                    => /\ passed => AllRepresentable(x[1])
                       /\ (~AllRepresentable(x[1]) /\ call[c].pc = "done")
                              => Raised(c, {"TypeError:dtype", "ValueError:shape",
                                            "ValueError:count", "IndexError",
                                            "KeyError", "TypeError:inputs"})

(***************************************************************************)
(* C3.  A failure of execution submission or of stream synchronization     *)
(* inside run makes the call return the failure sentinel instead of        *)
(* raising, and the manager remains usable: every call that passes         *)
(* validation and meets no failure of its own, also one that follows a     *)
(* failed call, returns one output array per declared output tensor.       *)
(***************************************************************************)
C3_FailureReturnsSentinelAndManagerStaysUsable ==
    \A c \in Callers :
        /\ (call[c].pc = "done" /\ call[c].faulted) => ReturnedSentinel(c)
        /\ (call[c].pc = "done" /\ call[c].how = "return" /\ ~call[c].faulted)
              => /\ call[c].value # Sentinel
                 /\ Len(call[c].value) = Len(DeclaredOut(c))
                 /\ mgr[call[c].mgr].stream = <<>>
                 /\ ~mgr[call[c].mgr].fault

\* A call returned its outputs after an earlier call had failed at run time.
C3_Witness ==
    \E c \in Callers : call[c].after_failure /\ ReturnedOutputs(c)

(***************************************************************************)
(* C4.  After successful construction every declared tensor of each of the *)
(* six models has both its host buffer and its device buffer allocated,    *)
(* sized to the declared shape and element type.                           *)
(* Construction touches device_buffer only (lines 100 and 112); host_buf   *)
(* stays None until something reads the host_buffer property.              *)
(***************************************************************************)
Sized(b) ==
    /\ IsDev(b.device_buf)
    /\ b.device_buf[2] \in DOMAIN devmem
    /\ devmem[b.device_buf[2]].shape = b.shape
    /\ devmem[b.device_buf[2]].dtype = b.dtype
    /\ devmem[b.device_buf[2]].nbytes = Volume(b.shape) * ItemSize(b.dtype)

\* Every tensor the engine file of the model declares has its descriptor.
Described(M, n) ==
    /\ n \in DOMAIN M.bindings
    /\ Len(M.bindings[n]) = Len(EngineFile(M.model_paths[n]))
    /\ \A k \in DOMAIN M.bindings[n] :
          LET t == EngineFile(M.model_paths[n])[k]
          IN  /\ M.bindings[n][k].shape = t.shape
              /\ M.bindings[n][k].dtype = dtype_map[t.dtype]

CountMismatch(c) ==
    LET g == call[c].given
    IN  \/ g.kind = "list" /\ Len(g.items) # Len(Declared(c))
        \/ /\ g.kind = "dict" /\ call[c].api = "run"
           /\ \E k \in DOMAIN Declared(c) : Supplied(c, k) = <<>>

C5_CountMismatchRaisesCountError ==
    \A c \in Callers :
        (call[c].pc = "done" /\ Known(c) /\ CountMismatch(c))
            => Raised(c, {"ValueError:count"})

(***************************************************************************)
(* C6.  run and infer with a model name that is not a loaded model fail    *)
(* with the configuration error and allocate, copy, bind and submit        *)
(* nothing: the state of the manager is unchanged.                         *)
(* infer tests the type of inputs first (lines 173-174): for inputs that   *)
(* are not a list it fails with that TypeError, whatever the name.         *)
(***************************************************************************)
C6_UnknownModelRaisesConfigurationError ==
    \A c \in Callers :
        (call[c].pc = "done" /\ ~Known(c)) => Raised(c, {"ValueError:model"})

\* The error the call of an unknown model ends with.
UnknownModelError(me) ==
    IF me.api = "infer" /\ me.given.kind # "list"
    THEN "TypeError:inputs" ELSE "ValueError:model"

\* As amended: the call ends at once, with the configuration error (for
\* infer with inputs that are not a list: with the TypeError for inputs),
\* and the step that makes it changes nothing but the caller's own record.
C6_UnknownModelRejectedWithoutEffect ==
    /\ [](\A c \in Callers :
            (InCall(c) /\ ~Known(c))
               => Raised(c, {UnknownModelError(call[c])}))
    /\ [][\A c \in Callers :
            (call[c].pc = "idle" /\ call'[c].pc # "idle"
             /\ call'[c].model \notin DOMAIN mgr[call'[c].mgr].engines)
               => UNCHANGED <<pluginLoads, mgr, devmem, hostmem>>]_vars

\* An unknown model name was rejected by a manager whose device buffers an
\* earlier call had filled.
C6_Witness ==
    \E c \in Callers :
        /\ call[c].pc = "done" /\ ~Known(c)
        /\ Raised(c, {"ValueError:model"})
        /\ \E n \in DOMAIN devmem : devmem[n].data # Uninit

(***************************************************************************)
(* C7.  A successful run returns exactly one array per declared output     *)
(* tensor, in the engine's declared output order, each a new array of the  *)
(* call that holds a copy of the device buffer's content: never a buffer   *)
(* of the manager, and never changed by a later call.                      *)
(***************************************************************************)
\* Every host_buf of every manager.
PinnedBuffers ==
    UNION {UNION {{mgr[m].bindings[n][k].host_buf : k \in DOMAIN mgr[m].bindings[n]} :
                     n \in DOMAIN mgr[m].bindings} :
              m \in Managers} \ {None}

C7_OutputsInOrder(c) ==
    LET M == mgr[call[c].mgr]
        v == call[c].value
        outs == M.outputs[call[c].model]
    IN  /\ Len(v) = Len(outs)
        /\ \A k \in DOMAIN v :
              LET b == M.bindings[call[c].model][outs[k]]
              IN  /\ v[k][1] = 1
                  /\ v[k][2] \in DOMAIN hostmem
                  /\ ~b.is_input
                  /\ \A j \in DOMAIN outs : j < k => outs[j] < outs[k]
                  /\ hostmem[v[k][2]].shape = b.shape
                  /\ hostmem[v[k][2]].dtype = b.dtype
                  /\ hostmem[v[k][2]].data = devmem[b.device_buf[2]].data
                  /\ hostmem[v[k][2]].data[1] = <<EngineNo(M.engines[call[c].model]), outs[k]>>
                  /\ v[k] \notin PinnedBuffers
                  /\ \A j \in DOMAIN v : v[j] = v[k] => j = k
                  /\ \A j \in DOMAIN call[c].kept : call[c].kept[j] # v[k]

C7_FreshOrderedOutputCopies ==
    /\ [](\A c \in Callers : ReturnedOutputs(c) => C7_OutputsInOrder(c))
    /\ [][\A c \in Callers :
            \A k \in DOMAIN call[c].kept :
               call'[c].kept = call[c].kept
                  => /\ call[c].kept[k][2] \in DOMAIN hostmem'
                     /\ hostmem'[call[c].kept[k][2]] = hostmem[call[c].kept[k][2]]]_vars

\* A call returned two arrays while the caller still held the two arrays
\* the call before had returned, with other content.
C7_Witness ==
    \E c \in Callers :
        /\ ReturnedOutputs(c)
        /\ Len(call[c].value) = 2
        /\ Len(call[c].kept) = 2
        /\ hostmem[call[c].kept[1][2]].data # hostmem[call[c].value[1][2]].data

(***************************************************************************)
(* C8.  In a sequence of calls that do not overlap, the outputs of each    *)
(* successful call are a function of that call's inputs only: they do not  *)
(* depend on the inputs, outputs or outcome of an earlier call, although   *)
(* all calls reuse the same device buffers.                                *)
(***************************************************************************)
\* What the engine is meant to read for declared input k of the call: the
\* validated array, or for a shape-inference input the caller's own array.
OwnInput(c, k) ==
    LET M == mgr[call[c].mgr]
        b == Declared(c)[k]
        t == EngineFile(M.engines[call[c].model])[M.inputs[call[c].model][k]]
    IN  IF t.shape_io
        THEN RawView(call[c].inputs[k], Limbs(b.dtype), Volume(b.shape))
        ELSE check_input_validity(call[c].inputs[k], b).arr.data

\* The function of the call's own inputs that output k must equal.
OwnOutput(c, k) ==
    LET M == mgr[call[c].mgr]
    IN  EngineFn(M.engines[call[c].model], M.outputs[call[c].model][k],
                 [j \in DOMAIN Declared(c) |-> OwnInput(c, j)])

C8_OutputsDependOnOwnInputsOnly ==
    \A c \in Callers :
        ReturnedOutputs(c) =>
            \A k \in DOMAIN call[c].value :
                hostmem[call[c].value[k][2]].data = OwnOutput(c, k)

\* A call returned outputs of the same engine tensor as the call before it,
\* computed from other inputs.
C8_Witness ==
    \E c \in Callers :
        /\ ReturnedOutputs(c)
        /\ call[c].kept # <<>>
        /\ hostmem[call[c].kept[1][2]].data[1] = hostmem[call[c].value[1][2]].data[1]
        /\ hostmem[call[c].kept[1][2]].data # hostmem[call[c].value[1][2]].data

(***************************************************************************)
(* C9.  In every construction of a manager the plugin library is loaded    *)
(* and registered before the first engine is deserialized; if loading the  *)
(* plugin fails, construction fails and no engine is deserialized.         *)
(***************************************************************************)
C9_PluginBeforeEngines ==
    \A m \in Managers :
        /\ (mgr[m].stage \in {"engines", "ready"} \/ DOMAIN mgr[m].engines # {})
              => mgr[m].plugin = "loaded"
        /\ mgr[m].plugin = "failed"
              => mgr[m].stage = "failed" /\ DOMAIN mgr[m].engines = {}
        /\ mgr[m].stage \in {"none", "load_plugins"} => DOMAIN mgr[m].engines = {}

\* One construction failed at the plugin, another went on to its engines.
C9_Witness ==
    \E m1, m2 \in Managers :
        /\ mgr[m1].plugin = "failed"
        /\ mgr[m2].plugin = "loaded" /\ DOMAIN mgr[m2].engines # {}

OwnData(c, k) == hostmem[call[c].value[k][2]].data = OwnOutput(c, k)

C11_OnlyOverlappingCallsCorrupt ==
    \A c \in Callers :
        (ReturnedOutputs(c) /\ ~call[c].overlapped)
            => \A k \in DOMAIN call[c].value : OwnData(c, k)

\* No execution failed, and a thread got back what the engine computed from
\* the inputs of the other thread's overlapping call on the same model.
C11_Witness ==
    \E c, o \in Callers :
        /\ c # o
        /\ ReturnedOutputs(c) /\ call[c].raced /\ ~call[c].faulted
        /\ InCall(o) /\ call[o].raced /\ ~call[o].faulted
        /\ call[o].model = call[c].model /\ call[o].mgr = call[c].mgr
        /\ ~OwnData(c, 1)
        /\ hostmem[call[c].value[1][2]].data = OwnOutput(o, 1)

(***************************************************************************)
(* C12.  What run returns on a runtime execution failure is an empty       *)
(* result: the returned value is empty exactly when the call failed at     *)
(* runtime, and it cannot be taken for the successful result of any model, *)
(* whatever the number of its outputs.                                     *)
(* Line 162 returns the pair (None, 0): it is not empty, and it has as     *)
(* many elements as the result of a model with two outputs.                *)
(***************************************************************************)
C12_FailureValueIsEmpty ==
    \A c \in Callers :
        (call[c].pc = "done" /\ call[c].how = "return") =>
            /\ (Len(call[c].value) = 0) <=> call[c].faulted
            /\ call[c].faulted => Len(call[c].value) # Len(DeclaredOut(c))

(***************************************************************************)
(* C13.  Shape validation accepts an array iff its shape is the declared   *)
(* shape, or the declared shape is (1,) and the array is 0-D; every other  *)
(* pairing, also a (1,) array for a declared 0-D shape, is rejected with   *)
(* the shape error.                                                        *)
(***************************************************************************)
ShapeAccepted(shape, declared) ==
    shape = declared \/ (declared = <<1>> /\ shape = <<>>)

\* For a call of run that reached the loop of lines 145-148: an input that
\* passed has an accepted shape, and the input the loop stopped at was
\* rejected with the shape error iff its shape is not accepted.
C13_ShapeAcceptedIffEqualOrScalarForUnit ==
    \A c \in Callers :
        (/\ Known(c) /\ call[c].api = "run" /\ call[c].given.kind = "list"
         /\ Len(call[c].given.items) = Len(Declared(c)))
        => \A k \in DOMAIN Declared(c) :
              LET x == Supplied(c, k)[1]
                  ok == ShapeAccepted(x.shape, Declared(c)[k].shape)
              IN  /\ (PastValidation(c) \/ (call[c].pc = "copy" /\ k < call[c].i))
                         => ok
                  /\ (call[c].pc = "done" /\ call[c].how = "raise" /\ call[c].i = k)
                         => (call[c].err = "ValueError:shape" <=> ~ok)

\* A 0-D array was accepted for an input declared (1,), and the call went
\* on to return outputs.
C13_Witness ==
    \E c \in Callers :
        /\ call[c].api = "run" /\ ReturnedOutputs(c)
        /\ call[c].given.kind = "list"
        /\ \E k \in DOMAIN Declared(c) :
              /\ Declared(c)[k].shape = <<1>>
              /\ Supplied(c, k)[1].shape = <<>>

(***************************************************************************)
(* C14.  When run submits execution, every I/O tensor of the engine has    *)
(* its address set in the execution context, and it is the right one: a    *)
(* shape-inference input is bound to the array the caller supplied for     *)
(* that tensor, every other tensor to its own device buffer, whatever the  *)
(* order of the inputs and outputs in the engine's enumeration.            *)
(* Line 152-153 index the caller's arrays by the tensor's index in the     *)
(* enumeration, not by its position among the inputs.                      *)
(***************************************************************************)
\* The position of tensor t among the inputs of the model.
InputPosition(M, model_name, t) ==
    CHOOSE k \in DOMAIN M.inputs[model_name] : M.inputs[model_name][k] = t

C14_EveryTensorBoundToItsOwnAddress ==
    \A c \in Callers :
        call[c].pc = "exec" =>
            LET M == mgr[call[c].mgr]
                n == call[c].model
                ctx == M.contexts[n]
            IN  \A t \in 1 .. num_io_tensors(M.engines[n]) :
                    /\ t \in DOMAIN ctx
                    /\ ctx[t] =
                         IF /\ EngineFile(M.engines[n])[t].shape_io
                            /\ M.bindings[n][t].is_input
                         THEN ArgAddr(c, InputPosition(M, n, t))
                         ELSE M.bindings[n][t].device_buf

(***************************************************************************)
(* C15.  The device buffer of each tensor is allocated once, at            *)
(* construction: after any sequence of run and infer calls, successful,    *)
(* rejected or failed, it is still that buffer, binding_addresses[model][i]*)
(* is still the device address of bindings[model][i], and no call has      *)
(* allocated a device buffer or a pinned host buffer.                      *)
(***************************************************************************)
C15_AddressTableMatches ==
    \A m \in Ready :
        \A n \in DOMAIN mgr[m].bindings :
            /\ Len(mgr[m].binding_addresses[n]) = Len(mgr[m].bindings[n])
            /\ \A k \in DOMAIN mgr[m].bindings[n] :
                  LET b == mgr[m].bindings[n][k]
                  IN  /\ IsDev(b.device_buf)
                      /\ b.device_buf[2] \in DOMAIN devmem
                      /\ mgr[m].binding_addresses[n][k] = b.device_buf
                      /\ b.host_buf = None

C15_BuffersAllocatedOnceAtConstruction ==
    /\ []C15_AddressTableMatches
    /\ [][/\ DOMAIN devmem' = DOMAIN devmem
          /\ \A a \in DOMAIN devmem :
                /\ devmem'[a].shape = devmem[a].shape
                /\ devmem'[a].dtype = devmem[a].dtype
                /\ devmem'[a].nbytes = devmem[a].nbytes
          /\ \A m \in Managers :
                /\ mgr'[m].bindings = mgr[m].bindings
                /\ mgr'[m].binding_addresses = mgr[m].binding_addresses]_vars

\* A call was rejected after one had failed at runtime, on a manager whose
\* device buffers calls had written.
C15_Witness ==
    \E c \in Callers :
        /\ call[c].after_failure
        /\ call[c].pc = "done" /\ call[c].how = "raise"
        /\ \E a \in DOMAIN devmem : devmem[a].data # Uninit

(***************************************************************************)
(* C16.  Within every run call that returns outputs the steps occur in     *)
(* this order: every input is copied to the device, then every tensor      *)
(* address is bound, then execution is submitted on the shared stream,     *)
(* then synchronize completes, and only then is an output copied to the    *)
(* host; no output is read while work of the call is pending on the        *)
(* stream.                                                                 *)
(***************************************************************************)
\* Work that the call of c submitted is still on the stream of its manager.
Pending(c) ==
    \E k \in DOMAIN mgr[call[c].mgr].stream : mgr[call[c].mgr].stream[k].owner = c

\* The order in which a call moves through run.
C16_Order ==
    { <<"idle", "copy">>, <<"idle", "done">>, <<"copy", "bind">>,
      <<"copy", "done">>, <<"bind", "exec">>, <<"exec", "sync">>,
      <<"exec", "done">>, <<"sync", "dtoh">>, <<"sync", "done">>,
      <<"dtoh", "done">>, <<"done", "idle">> }

C16_StepsInOrder ==
    /\ [](\A c \in Callers :
            (call[c].pc = "dtoh" \/ ReturnedOutputs(c)) => ~Pending(c))
    /\ [][\A c \in Callers :
            LET me == call[c]
                M == mgr[me.mgr]
            IN  /\ call'[c].pc # me.pc => <<me.pc, call'[c].pc>> \in C16_Order
                \* the loop copies the inputs one after the other, all of them
                /\ (me.pc = "copy" /\ (call'[c].pc = "bind" \/ call'[c].i # me.i))
                      => /\ devmem'[Declared(c)[me.i].device_buf[2]].data
                              = check_input_validity(me.inputs[me.i],
                                                     Declared(c)[me.i]).arr.data
                         /\ (call'[c].pc = "bind") <=> (me.i = Len(Declared(c)))
                         /\ call'[c].pc = "copy" => call'[c].i = me.i + 1
                \* every tensor has its address when execution is submitted
                /\ (me.pc = "bind" /\ call'[c].pc = "exec")
                      => \A t \in 1 .. num_io_tensors(M.engines[me.model]) :
                            mgr'[me.mgr].contexts[me.model][t] # None
                /\ (me.pc = "exec" /\ call'[c].pc = "sync")
                      => /\ Len(mgr'[me.mgr].stream) = Len(M.stream) + 1
                         /\ mgr'[me.mgr].stream[Len(M.stream) + 1].owner = c
                         /\ mgr'[me.mgr].stream[Len(M.stream) + 1].addrs
                               = M.contexts[me.model]
                \* synchronize returns when the stream has drained
                /\ (me.pc = "sync" /\ call'[c].pc # "sync") => M.stream = <<>>
                \* an output array appears only in the output loop
                /\ call'[c].outs # me.outs
                      => me.pc = "dtoh" /\ ~Pending(c)]_vars

\* A call reads its outputs while work of the other thread is pending on
\* the stream.
C16_Witness ==
    \E c, o \in Callers :
        /\ c # o
        /\ call[c].pc = "dtoh" /\ call[c].outs # <<>>
        /\ call[o].mgr = call[c].mgr /\ call[o].pc = "sync" /\ Pending(o)

(***************************************************************************)
(* C17.  After successful construction the six tables of the manager       *)
(* (engines, contexts, bindings, binding_addresses, inputs, outputs) have  *)
(* the same keys, the six model names; for each model, inputs followed by  *)
(* outputs is a partition of bindings that keeps the engine's tensor       *)
(* order; no run or infer call adds, removes or replaces an entry; so run  *)
(* and infer accept the same model names.                                  *)
(***************************************************************************)
Increasing(seq) == \A j, k \in DOMAIN seq : j < k => seq[j] < seq[k]

C17_TablesAgree ==
    \A m \in Ready :
        LET M == mgr[m]
        IN  /\ DOMAIN M.engines = ModelNames
            /\ DOMAIN M.contexts = ModelNames
            /\ DOMAIN M.bindings = ModelNames
            /\ DOMAIN M.binding_addresses = ModelNames
            /\ DOMAIN M.inputs = ModelNames
            /\ DOMAIN M.outputs = ModelNames
            /\ \A n \in ModelNames :
                  LET ins == {M.inputs[n][k] : k \in DOMAIN M.inputs[n]}
                      outs == {M.outputs[n][k] : k \in DOMAIN M.outputs[n]}
                  IN  /\ Increasing(M.inputs[n]) /\ Increasing(M.outputs[n])
                      /\ ins \cup outs = DOMAIN M.bindings[n]
                      /\ ins \cap outs = {}
                      /\ \A t \in DOMAIN M.bindings[n] :
                            M.bindings[n][t].is_input <=> t \in ins
                      /\ Len(M.bindings[n]) = num_io_tensors(M.engines[n])
                      /\ Len(M.contexts[n]) = Len(M.bindings[n])

C17_TablesFixedAfterConstruction ==
    /\ []C17_TablesAgree
    /\ [][\A m \in Ready :
            /\ mgr'[m].engines = mgr[m].engines
            /\ DOMAIN mgr'[m].contexts = DOMAIN mgr[m].contexts
            /\ mgr'[m].bindings = mgr[m].bindings
            /\ mgr'[m].binding_addresses = mgr[m].binding_addresses
            /\ mgr'[m].inputs = mgr[m].inputs
            /\ mgr'[m].outputs = mgr[m].outputs]_vars
    \* the name a call passes is unknown to run iff it is unknown to infer
    /\ [][\A c \in Callers :
            (call[c].pc = "idle" /\ call'[c].pc # "idle")
               => LET M == mgr[call'[c].mgr]
                      g == Container("list", <<>>, <<>>)
                  IN  (RunPrelude(M, call'[c].model, g).err = "ValueError:model")
                         <=> (InferPrelude(M, call'[c].model, g).err = "ValueError:model")]_vars

\* infer returned outputs after an earlier call had returned outputs.
C17_Witness ==
    \E c \in Callers :
        /\ call[c].api = "infer" /\ ReturnedOutputs(c)
        /\ call[c].kept # <<>>

(***************************************************************************)
(* C18.  A run call on one model leaves the device buffers, the cached     *)
(* address table and the context bindings of every other model unchanged;  *)
(* therefore, when callers synchronize per model name only, so that calls  *)
(* on different models overlap on the one shared stream, the outputs of    *)
(* every call still depend on that call's own inputs only.                 *)
(* The stream is shared, and so is what synchronize reports: a failure of  *)
(* one model's execution is raised in the thread that synchronizes first.  *)
(***************************************************************************)
\* Model n of manager m is in use: a call on it is in flight, or work of it
\* is on the stream.
Busy(m, n) ==
    \/ \E c \in Callers : InFlight(c) /\ call[c].mgr = m /\ call[c].model = n
    \/ \E k \in DOMAIN mgr[m].stream : mgr[m].stream[k].model = n

C18_OtherModelsUntouched ==
    \A m \in Ready :
        \A n \in ModelNames :
            (~Busy(m, n) /\ ~Busy(m, n)')
                => /\ mgr'[m].contexts[n] = mgr[m].contexts[n]
                   /\ mgr'[m].binding_addresses[n] = mgr[m].binding_addresses[n]
                   /\ mgr'[m].bindings[n] = mgr[m].bindings[n]
                   /\ \A k \in DOMAIN mgr[m].bindings[n] :
                         devmem'[mgr[m].bindings[n][k].device_buf[2]]
                            = devmem[mgr[m].bindings[n][k].device_buf[2]]

C18_PerModelSynchronizationIsolatesCalls ==
    /\ [][C18_OtherModelsUntouched]_vars
    /\ [](\A c \in Callers :
            (call[c].pc = "done" /\ call[c].how = "return" /\ ~call[c].raced)
                => /\ call[c].faulted <=> ReturnedSentinel(c)
                   /\ ReturnedOutputs(c)
                         => \A k \in DOMAIN call[c].value : OwnData(c, k))

============================================================================
